---- MODULE Spec2Model ----
(***************************************************************************)
(* State-machine model of nyakiomaina/hashing-demo, src/main.rs.            *)
(*                                                                         *)
(* The program is one interactive loop (main) that hashes a text or a file *)
(* under a selected algorithm, or compares the digests of two inputs       *)
(* (compare_hashes).  Text is a sequence of Unicode code points, bytes and *)
(* hex characters are sequences of integers (a hex character is its ASCII  *)
(* code).  The four digest primitives come from external crates (sha2,     *)
(* tiny_keccak, blake2, md5); they are modelled as fixed deterministic     *)
(* functions of the payload with the crates' output widths, and everything *)
(* the repository itself does around them (dispatch, hex encoding,         *)
(* trimming, file validation, comparison, reporting) is modelled from the  *)
(* code.  The collaborators (dialoguer::Select, stdin) are assumed to      *)
(* succeed, as their unwrap() calls require.                                *)
(***************************************************************************)
EXTENDS Integers, Sequences, FiniteSets, TLC

VARIABLES
    pc,                 \* position of the single thread in main / compare_hashes
    mode_selection,     \* main: index chosen among mode_choices
    raw,                \* main: the line read from stdin (before trim)
    input,              \* main: input.trim().to_string()
    selection,          \* index chosen among choices (main and compare_hashes)
    hash_result,        \* main: Result<String, Box<dyn Error>>
    compare_mode,       \* compare_hashes: index chosen among compare_mode_choices
    raw1, raw2,         \* compare_hashes: the two lines read from stdin
    input1, input2,     \* compare_hashes: the trimmed inputs
    hash1_result,       \* compare_hashes: result for input 1
    hash2_result,       \* compare_hashes: result for input 2
    continue_selection, \* main: index chosen among continue_choices
    out,                \* lines written to stdout/stderr in this loop iteration
    calls               \* file-system and digest operations of this iteration

vars == << pc, mode_selection, raw, input, selection, hash_result, compare_mode,
           raw1, raw2, input1, input2, hash1_result, hash2_result,
           continue_selection, out, calls >>

----------------------------------------------------------------------------
(* Bounds and input alphabet *)

\* longest line content (before the newline) a user types
MaxLen == 2

\* code points a user types: space, 'a', U+00E9 (two UTF-8 bytes)
Chars == {32, 97, 233}

\* the newline read_line keeps at the end of the line
Newline == 10

RECURSIVE SeqsUpTo(_, _)
SeqsUpTo(S, n) ==
    IF n = 0 THEN {<< >>}
    ELSE LET shorter == SeqsUpTo(S, n - 1)
         IN  shorter \cup {Append(s, c) : s \in {t \in shorter : Len(t) = n - 1}, c \in S}

\* what io::stdin().read_line() can put into the buffer
Lines == {Append(s, Newline) : s \in SeqsUpTo(Chars, MaxLen)}

----------------------------------------------------------------------------
(* Menus *)

mode_choices == << "Text Hashing", "File Hashing", "Compare Hashes" >>

compare_mode_choices == << "Compare Text", "Compare Files" >>

\* a menu offering an algorithm the match arms do not handle
choices_with_unsupported == << "SHA-256", "Keccak-256", "Blake2b", "MD5", "SHA-1" >>

choices == << "SHA-256", "Keccak-256", "Blake2b", "MD5" >>

continue_choices == << "Continue Hashing", "Exit" >>

\* dialoguer::Select::interact() returns a 0-based index into its items
Select(items) == 0 .. (Len(items) - 1)

----------------------------------------------------------------------------
(* Text: trimming and UTF-8 *)

\* char::is_whitespace (Unicode White_Space), restricted to code points < 256
IsWhitespace(c) == c \in {9, 10, 11, 12, 13, 32, 133, 160}

RECURSIVE TrimStart(_)
TrimStart(s) ==
    IF s = << >> THEN s
    ELSE IF IsWhitespace(Head(s)) THEN TrimStart(Tail(s)) ELSE s

RECURSIVE TrimEnd(_)
TrimEnd(s) ==
    IF s = << >> THEN s
    ELSE IF IsWhitespace(s[Len(s)]) THEN TrimEnd(SubSeq(s, 1, Len(s) - 1)) ELSE s

\* a trim that forgets the leading whitespace (trim_end)
Trim_end_only(s) == TrimEnd(s)

\* str::trim
Trim(s) == TrimEnd(TrimStart(s))

\* UTF-8 encoding of one code point below U+0800
Utf8(c) ==
    IF c < 128 THEN << c >>
    ELSE << 192 + (c \div 64), 128 + (c % 64) >>

\* str::as_bytes
RECURSIVE AsBytes(_)
AsBytes(s) ==
    IF s = << >> THEN << >> ELSE Utf8(Head(s)) \o AsBytes(Tail(s))

----------------------------------------------------------------------------
(* Digest primitives of the external crates and hex encoding *)

RECURSIVE Absorb(_, _)
Absorb(h, bytes) ==
    IF bytes = << >> THEN h
    ELSE Absorb((h * 33 + Head(bytes) + 1) % 65521, Tail(bytes))

\* an n-byte digest of bytes, keyed by the primitive's initial value iv
Squeeze(iv, n, bytes) ==
    LET h == Absorb(iv, bytes)
    IN  [i \in 1 .. n |-> ((h + 1) * (2 * i + 1) + i * i) % 256]

Sha256Len == 32
Blake2b512Len == 64
Md5Len == 16
KeccakOutputLen == 32

Sha256(bytes) == Squeeze(1, Sha256Len, bytes)

\* Keccak::v256() squeezed into a caller-provided output buffer
Keccak256(bytes, outlen) == Squeeze(2, outlen, bytes)

Blake2b512(bytes) == Squeeze(3, Blake2b512Len, bytes)

Md5(bytes) == Squeeze(4, Md5Len, bytes)

\* lower-case hex digit, as its ASCII code
HexDigit(n) == IF n < 10 THEN 48 + n ELSE 87 + n

\* hex::encode
encode(bytes) ==
    [i \in 1 .. (2 * Len(bytes)) |->
        LET b == bytes[(i + 1) \div 2]
        IN  HexDigit(IF i % 2 = 1 THEN b \div 16 ELSE b % 16)]

\* the value standing for a panic in unreachable!()
Unreachable == << -1 >>

----------------------------------------------------------------------------
(* hash_text *)

hash_text(text, algorithm) ==
    CASE algorithm = "SHA-256"    -> encode(Sha256(AsBytes(text)))
      [] algorithm = "Keccak-256" -> encode(Keccak256(AsBytes(text), KeccakOutputLen))
      [] algorithm = "Blake2b"    -> encode(Blake2b512(AsBytes(text)))
      [] algorithm = "MD5"        -> encode(Md5(AsBytes(text)))
      [] OTHER                    -> Unreachable

----------------------------------------------------------------------------
(* The file system hash_file looks at, and hash_file *)

Absent == [kind |-> "absent", readable |-> FALSE, content |-> << >>]

RegularFile(bytes) == [kind |-> "file", readable |-> TRUE, content |-> bytes]

\* the entry a path names: regular files (two with the same content, one
\* empty, one whose bytes are not UTF-8, one whose read fails), a directory,
\* and nothing anywhere else
FsEntry(path) ==
    CASE path = << 97 >>       -> RegularFile(<< 97 >>)
      [] path = << 233 >>      -> RegularFile(<< 195, 169 >>)
      [] path = << 97, 97 >>   -> [kind |-> "dir", readable |-> FALSE, content |-> << >>]
      [] path = << 97, 233 >>  -> [kind |-> "file", readable |-> FALSE, content |-> << 97 >>]
      [] path = << 233, 97 >>  -> RegularFile(<< 97 >>)
      [] path = << 233, 233 >> -> RegularFile(<< >>)
      [] path = << 97, 32, 97 >> -> RegularFile(<< 255, 97 >>)
      [] OTHER                 -> Absent

\* Path::exists
PathExists(path) == FsEntry(path).kind # "absent"

\* Path::is_file
PathIsFile(path) == FsEntry(path).kind = "file"

Ok(digest) == [tag |-> "Ok", hash |-> digest, err |-> [kind |-> "none", path |-> << >>]]

Err(kind, path) == [tag |-> "Err", hash |-> << >>, err |-> [kind |-> kind, path |-> path]]

Unset == [tag |-> "unset", hash |-> << >>, err |-> [kind |-> "none", path |-> << >>]]

\* fs::read
FsRead(path) ==
    IF FsEntry(path).readable THEN Ok(FsEntry(path).content)
    ELSE Err("ReadError", path)

\* the match with the Keccak-256 arm pasted from the SHA-256 arm
hash_file_content_copy_paste(file_content, algorithm) ==
    CASE algorithm = "SHA-256"    -> encode(Sha256(file_content))
      [] algorithm = "Keccak-256" -> encode(Sha256(file_content))
      [] algorithm = "Blake2b"    -> encode(Blake2b512(file_content))
      [] algorithm = "MD5"        -> encode(Md5(file_content))
      [] OTHER                    -> Unreachable

\* the match on algorithm inside hash_file, applied to the bytes read
hash_file_content(file_content, algorithm) ==
    CASE algorithm = "SHA-256"    -> encode(Sha256(file_content))
      [] algorithm = "Keccak-256" -> encode(Keccak256(file_content, KeccakOutputLen))
      [] algorithm = "Blake2b"    -> encode(Blake2b512(file_content))
      [] algorithm = "MD5"        -> encode(Md5(file_content))
      [] OTHER                    -> Unreachable

\* one operation on the file system or on a digest primitive, with its argument
Op(op, arg) == [op |-> op, arg |-> arg]

\* hash_file without the is_file check
hash_file_no_is_file_check(file_path, algorithm) ==
    IF ~PathExists(file_path)
    THEN [result |-> Err("NotFound", file_path),
          ops |-> << Op("exists", file_path) >>]
    ELSE LET file_content == FsRead(file_path)
         IN  IF file_content.tag = "Err"
             THEN [result |-> file_content,
                   ops |-> << Op("exists", file_path), Op("read", file_path) >>]
             ELSE [result |-> Ok(hash_file_content(file_content.hash, algorithm)),
                   ops |-> << Op("exists", file_path), Op("read", file_path),
                              Op("digest", file_content.hash) >>]

\* hash_file: the result, and the operations performed on the way, in order
hash_file(file_path, algorithm) ==
    IF ~PathExists(file_path)
    THEN [result |-> Err("NotFound", file_path),
          ops |-> << Op("exists", file_path) >>]
    ELSE IF ~PathIsFile(file_path)
    THEN [result |-> Err("NotAFile", file_path),
          ops |-> << Op("exists", file_path), Op("is_file", file_path) >>]
    ELSE LET file_content == FsRead(file_path)
         IN  IF file_content.tag = "Err"
             THEN [result |-> file_content,
                   ops |-> << Op("exists", file_path), Op("is_file", file_path),
                              Op("read", file_path) >>]
             ELSE [result |-> Ok(hash_file_content(file_content.hash, algorithm)),
                   ops |-> << Op("exists", file_path), Op("is_file", file_path),
                              Op("read", file_path),
                              Op("digest", file_content.hash) >>]

\* the call of hash_text wrapped in Ok(..), with the operation it performs
hash_text_call(text, algorithm) ==
    [result |-> Ok(hash_text(text, algorithm)),
     ops |-> << Op("digest", AsBytes(text)) >>]

\* the operations of one call, tagged with the operand they were made for
\* (0: the input of main, 1 and 2: the inputs of compare_hashes)
Tagged(operand, ops) ==
    [i \in 1 .. Len(ops) |-> [operand |-> operand, op |-> ops[i].op, arg |-> ops[i].arg]]

----------------------------------------------------------------------------
(* What the program displays *)

Line(stream, tag, arg) == [stream |-> stream, tag |-> tag, arg |-> arg]

Notes ==
    << "SHA-256 is widely used in Bitcoin & general cryptography.",
       "Keccak-256 is used in Ethereum smart contracts.",
       "Blake2b is fast and secure. Used in modern protocols like Zcash.",
       "MD5 is broken. Do NOT use it for security-critical tasks." >>

\* the match with the algorithm note printed after it, whatever the result
SingleOutput_note_always(text, input_type, algorithm, sel, result) ==
    (IF result.tag = "Ok"
     THEN << Line("stdout", "Input", text),
             Line("stdout", "Type", input_type),
             Line("stdout", "Algorithm", algorithm),
             Line("stdout", "Output Hash", result.hash) >>
     ELSE << Line("stderr", "Error", result.err) >>)
    \o (IF sel \in 0 .. 3 THEN << Line("stdout", "Note", Notes[sel + 1]) >> ELSE << >>)

\* main: the match on hash_result
SingleOutput(text, input_type, algorithm, sel, result) ==
    IF result.tag = "Ok"
    THEN << Line("stdout", "Input", text),
            Line("stdout", "Type", input_type),
            Line("stdout", "Algorithm", algorithm),
            Line("stdout", "Output Hash", result.hash) >>
         \o (IF sel \in 0 .. 3 THEN << Line("stdout", "Note", Notes[sel + 1]) >> ELSE << >>)
    ELSE << Line("stderr", "Error", result.err) >>

\* Iterator::zip: pairs up to the end of the shorter sequence
Zip(hash1, hash2) ==
    [i \in 1 .. (IF Len(hash1) <= Len(hash2) THEN Len(hash1) ELSE Len(hash2)) |->
        << hash1[i], hash2[i] >>]

\* the filter keeping the equal pairs
Differ_inverted(pair) == pair[1] = pair[2]

\* |(a, b)| a != b
Differ(pair) == pair[1] # pair[2]

\* hash1.chars().zip(hash2.chars()).filter(|(a, b)| a != b).count()
Differences(hash1, hash2) == Len(SelectSeq(Zip(hash1, hash2), Differ))

\* (differences / total_chars) * 100.0 printed with {:.1}, in tenths of a percent;
\* the quotient is exact in f64 for the digest lengths, and the formatting
\* rounds a tie to the even digit
PercentTenths(differences, total_chars) ==
    LET n == differences * 1000
        q == n \div total_chars
        r == n % total_chars
    IN  IF 2 * r > total_chars THEN q + 1
        ELSE IF 2 * r < total_chars THEN q
        ELSE IF q % 2 = 0 THEN q ELSE q + 1

\* the difference line printed without the equality test
DifferenceReport_always(hash1, hash2) ==
    << Line("stdout", "Character differences",
            [differences |-> Differences(hash1, hash2), total_chars |-> Len(hash1),
             tenths |-> PercentTenths(Differences(hash1, hash2), Len(hash1))]) >>

\* compare_hashes: the lines printed when the two digests are not equal
DifferenceReport(hash1, hash2) ==
    IF hash1 = hash2 THEN << >>
    ELSE LET differences == Differences(hash1, hash2)
             total_chars == Len(hash1)
         IN  << Line("stdout", "Character differences",
                     [differences |-> differences, total_chars |-> total_chars,
                      tenths |-> PercentTenths(differences, total_chars)]) >>

\* the match with the two error arms in the other order
CompareOutput_second_first(text1, text2, input_type, algorithm, result1, result2) ==
    IF result1.tag = "Ok" /\ result2.tag = "Ok"
    THEN << Line("stdout", "Comparison Results", << >>),
            Line("stdout", "Algorithm", algorithm),
            Line("stdout", "Type", input_type),
            Line("stdout", "Input 1", text1),
            Line("stdout", "Hash 1", result1.hash),
            Line("stdout", "Input 2", text2),
            Line("stdout", "Hash 2", result2.hash) >>
         \o DifferenceReport(result1.hash, result2.hash)
    ELSE IF result2.tag = "Err"
    THEN << Line("stderr", "Error with second input", result2.err) >>
    ELSE << Line("stderr", "Error with first input", result1.err) >>

\* compare_hashes: the match on (hash1_result, hash2_result)
CompareOutput(text1, text2, input_type, algorithm, result1, result2) ==
    IF result1.tag = "Ok" /\ result2.tag = "Ok"
    THEN << Line("stdout", "Comparison Results", << >>),
            Line("stdout", "Algorithm", algorithm),
            Line("stdout", "Type", input_type),
            Line("stdout", "Input 1", text1),
            Line("stdout", "Hash 1", result1.hash),
            Line("stdout", "Input 2", text2),
            Line("stdout", "Hash 2", result2.hash) >>
         \o DifferenceReport(result1.hash, result2.hash)
    ELSE IF result1.tag = "Err"
    THEN << Line("stderr", "Error with first input", result1.err) >>
    ELSE << Line("stderr", "Error with second input", result2.err) >>

----------------------------------------------------------------------------
(* The state machine *)

NoSelection == -1

Banner == Line("stdout", "Banner", "Hashing Function Demo")

Init ==
    /\ pc = "mode"
    /\ mode_selection = NoSelection
    /\ raw = << >>
    /\ input = << >>
    /\ selection = NoSelection
    /\ hash_result = Unset
    /\ compare_mode = NoSelection
    /\ raw1 = << >>
    /\ raw2 = << >>
    /\ input1 = << >>
    /\ input2 = << >>
    /\ hash1_result = Unset
    /\ hash2_result = Unset
    /\ continue_selection = NoSelection
    /\ out = << Banner >>
    /\ calls = << >>

\* let algorithm = choices[selection];
Algorithm == choices[selection + 1]

\* main: "Choose hashing mode" and the outer match on mode_selection
SelectMode ==
    /\ pc = "mode"
    /\ \E m \in Select(mode_choices) :
          /\ mode_selection' = m
          /\ pc' = CASE m \in {0, 1} -> "input"
                     [] m = 2        -> "cmp_mode"
                     [] OTHER        -> "panic"
    /\ UNCHANGED << raw, input, selection, hash_result, compare_mode, raw1, raw2,
                    input1, input2, hash1_result, hash2_result,
                    continue_selection, out, calls >>

\* main: read_line, trim, to_string
ReadInput ==
    /\ pc = "input"
    /\ \E line \in Lines :
          /\ raw' = line
          /\ input' = Trim(line)
    /\ pc' = IF mode_selection \in {0, 1} THEN "algo" ELSE "panic"
    /\ UNCHANGED << mode_selection, selection, hash_result, compare_mode, raw1, raw2,
                    input1, input2, hash1_result, hash2_result,
                    continue_selection, out, calls >>

\* main: "Choose a hashing algorithm"
SelectAlgorithm ==
    /\ pc = "algo"
    /\ \E s \in Select(choices) : selection' = s
    /\ pc' = "hash"
    /\ UNCHANGED << mode_selection, raw, input, hash_result, compare_mode, raw1, raw2,
                    input1, input2, hash1_result, hash2_result,
                    continue_selection, out, calls >>

\* the result a reached unreachable!() leaves behind
Panicked == [result |-> Ok(Unreachable), ops |-> << >>]

\* match mode { 0 => Ok(hash_text(..)), 1 => hash_file(..), _ => unreachable!() }
HashCall(mode, text, algorithm) ==
    CASE mode = 0 -> hash_text_call(text, algorithm)
      [] mode = 1 -> hash_file(text, algorithm)
      [] OTHER    -> Panicked

AfterHash(result, next) == IF result.hash = Unreachable THEN "panic" ELSE next

\* main: let hash_result = match mode_selection { .. }
HashInput ==
    /\ pc = "hash"
    /\ LET call == HashCall(mode_selection, input, Algorithm)
       IN  /\ hash_result' = call.result
           /\ calls' = calls \o Tagged(0, call.ops)
           /\ pc' = AfterHash(call.result, "show")
    /\ UNCHANGED << mode_selection, raw, input, selection, compare_mode, raw1, raw2,
                    input1, input2, hash1_result, hash2_result,
                    continue_selection, out >>

InputType(mode) == IF mode = 0 THEN "Text" ELSE "File"

\* main: match hash_result { Ok(hash) => .., Err(e) => .. }
ShowResult ==
    /\ pc = "show"
    /\ out' = out \o SingleOutput(input, InputType(mode_selection), Algorithm,
                                  selection, hash_result)
    /\ pc' = "continue"
    /\ UNCHANGED << mode_selection, raw, input, selection, hash_result, compare_mode,
                    raw1, raw2, input1, input2, hash1_result, hash2_result,
                    continue_selection, calls >>

\* compare_hashes: "Choose comparison mode"
CompareSelectMode ==
    /\ pc = "cmp_mode"
    /\ \E m \in Select(compare_mode_choices) : compare_mode' = m
    /\ pc' = "cmp_input"
    /\ UNCHANGED << mode_selection, raw, input, selection, hash_result, raw1, raw2,
                    input1, input2, hash1_result, hash2_result,
                    continue_selection, out, calls >>

\* compare_hashes: let (input1, input2, input_type) = match compare_mode { .. }
CompareReadInputs ==
    /\ pc = "cmp_input"
    /\ \E line1 \in Lines, line2 \in Lines :
          /\ raw1' = line1
          /\ input1' = Trim(line1)
          /\ raw2' = line2
          /\ input2' = Trim(line2)
    /\ pc' = IF compare_mode \in {0, 1} THEN "cmp_algo" ELSE "panic"
    /\ UNCHANGED << mode_selection, raw, input, selection, hash_result, compare_mode,
                    hash1_result, hash2_result, continue_selection, out, calls >>

\* compare_hashes: "Choose a hashing algorithm"
CompareSelectAlgorithm ==
    /\ pc = "cmp_algo"
    /\ \E s \in Select(choices) : selection' = s
    /\ pc' = "cmp_hash1"
    /\ UNCHANGED << mode_selection, raw, input, hash_result, compare_mode, raw1, raw2,
                    input1, input2, hash1_result, hash2_result,
                    continue_selection, out, calls >>

\* compare_hashes: let hash1_result = match compare_mode { .. }
CompareHash1 ==
    /\ pc = "cmp_hash1"
    /\ LET call == HashCall(compare_mode, input1, Algorithm)
       IN  /\ hash1_result' = call.result
           /\ calls' = calls \o Tagged(1, call.ops)
           /\ pc' = AfterHash(call.result, "cmp_hash2")
    /\ UNCHANGED << mode_selection, raw, input, selection, hash_result, compare_mode,
                    raw1, raw2, input1, input2, hash2_result,
                    continue_selection, out >>

\* a second selection: the entry after the selected one
Algorithm2_other == choices[((selection + 1) % Len(choices)) + 1]

\* the algorithm the second digest is computed under
Algorithm2 == Algorithm

\* compare_hashes: let hash2_result = match compare_mode { .. }
CompareHash2 ==
    /\ pc = "cmp_hash2"
    /\ LET call == HashCall(compare_mode, input2, Algorithm2)
       IN  /\ hash2_result' = call.result
           /\ calls' = calls \o Tagged(2, call.ops)
           /\ pc' = AfterHash(call.result, "cmp_report")
    /\ UNCHANGED << mode_selection, raw, input, selection, hash_result, compare_mode,
                    raw1, raw2, input1, input2, hash1_result,
                    continue_selection, out >>

\* compare_hashes: match (hash1_result, hash2_result) { .. }, then return to main
CompareReport ==
    /\ pc = "cmp_report"
    /\ out' = out \o CompareOutput(input1, input2, InputType(compare_mode), Algorithm,
                                   hash1_result, hash2_result)
    /\ pc' = "continue"
    /\ UNCHANGED << mode_selection, raw, input, selection, hash_result, compare_mode,
                    raw1, raw2, input1, input2, hash1_result, hash2_result,
                    continue_selection, calls >>

\* main: the continue/exit prompt; break on "Exit", else the next iteration,
\* whose locals are fresh
Continue ==
    /\ pc = "continue"
    /\ \E c \in Select(continue_choices) :
          /\ continue_selection' = c
          /\ IF c = 1
             THEN /\ pc' = "done"
                  /\ out' = Append(out, Line("stdout", "Farewell", "hope you learned something!"))
             ELSE /\ pc' = "mode"
                  /\ out' = << Line("stdout", "Blank", "") >>
    /\ mode_selection' = NoSelection
    /\ raw' = << >>
    /\ input' = << >>
    /\ selection' = NoSelection
    /\ hash_result' = Unset
    /\ compare_mode' = NoSelection
    /\ raw1' = << >>
    /\ raw2' = << >>
    /\ input1' = << >>
    /\ input2' = << >>
    /\ hash1_result' = Unset
    /\ hash2_result' = Unset
    /\ calls' = << >>

Next ==
    \/ SelectMode
    \/ ReadInput
    \/ SelectAlgorithm
    \/ HashInput
    \/ ShowResult
    \/ CompareSelectMode
    \/ CompareReadInputs
    \/ CompareSelectAlgorithm
    \/ CompareHash1
    \/ CompareHash2
    \/ CompareReport
    \/ Continue

Spec == Init /\ [][Next]_vars

----------------------------------------------------------------------------
(* Properties *)

\* a line with this tag has been displayed in the current iteration
Reported(tag) == \E i \in 1 .. Len(out) : out[i].tag = tag

\* the operations performed for one operand, in order
IsOperand0(c) == c.operand = 0
IsOperand1(c) == c.operand = 1
IsOperand2(c) == c.operand = 2

CallsFor(operand) ==
    CASE operand = 0 -> SelectSeq(calls, IsOperand0)
      [] operand = 1 -> SelectSeq(calls, IsOperand1)
      [] operand = 2 -> SelectSeq(calls, IsOperand2)

OpNames(cs) == [i \in 1 .. Len(cs) |-> cs[i].op]

\* a comparison has displayed its outcome
ComparisonShown == pc = "continue" /\ mode_selection = 2

\* C1: in a comparison whose first operand failed, no read and no digest
\* computation of the second operand has taken place.
C1_SecondUntouchedWhenFirstFails ==
    (mode_selection = 2 /\ hash1_result.tag = "Err") =>
        \A i \in 1 .. Len(calls) :
            ~(calls[i].operand = 2 /\ calls[i].op \in {"read", "digest"})

\* C2 as stated: 'Error with first input' is reported exactly when the first
\* operand failed, 'Error with second input' exactly when the second operand
\* failed, and the comparison results exactly when neither failed.
C2_EachFailureReported ==
    ComparisonShown =>
        /\ Reported("Error with first input") <=> hash1_result.tag = "Err"
        /\ Reported("Error with second input") <=> hash2_result.tag = "Err"
        /\ Reported("Comparison Results") <=>
               (hash1_result.tag = "Ok" /\ hash2_result.tag = "Ok")

\* C2 as amended: 'Error with first input' is reported exactly when the first
\* operand failed, 'Error with second input' exactly when the first operand
\* succeeded and the second failed, and the comparison results exactly when
\* neither failed; so exactly one of the three is displayed.
C2_FirstFailureReported ==
    ComparisonShown =>
        /\ Reported("Error with first input") <=> hash1_result.tag = "Err"
        /\ Reported("Error with second input") <=>
               (hash1_result.tag = "Ok" /\ hash2_result.tag = "Err")
        /\ Reported("Comparison Results") <=>
               (hash1_result.tag = "Ok" /\ hash2_result.tag = "Ok")

\* both operands failed and the outcome has been displayed
C2_BothFailed ==
    /\ ComparisonShown
    /\ hash1_result.tag = "Err"
    /\ hash2_result.tag = "Err"
    /\ Reported("Error with first input")

\* what hash_file must have done for a path, given what the path names
FileOutcome(path, result, operand) ==
    LET entry == FsEntry(path)
        ops == OpNames(CallsFor(operand))
    IN  /\ entry.kind = "absent" =>
               /\ result.tag = "Err" /\ result.err.kind = "NotFound"
               /\ ops = << "exists" >>
        /\ entry.kind = "dir" =>
               /\ result.tag = "Err" /\ result.err.kind = "NotAFile"
               /\ ops = << "exists", "is_file" >>
        /\ (entry.kind = "file" /\ ~entry.readable) =>
               /\ result.tag = "Err" /\ result.err.kind = "ReadError"
               /\ ops = << "exists", "is_file", "read" >>
        /\ result.tag = "Ok" <=> (entry.kind = "file" /\ entry.readable)
        /\ result.tag = "Ok" => ops = << "exists", "is_file", "read", "digest" >>

\* C3: hash_file fails with NotFound for a path that does not exist, with
\* NotAFile for a path that is no regular file, with the read error when the
\* read fails, returns a digest only when all three steps succeed, and reads
\* nothing when one of the first two checks fails.
C3_FileValidationOrder ==
    /\ (mode_selection = 1 /\ hash_result.tag # "unset") =>
           FileOutcome(input, hash_result, 0)
    /\ (compare_mode = 1 /\ hash1_result.tag # "unset") =>
           FileOutcome(input1, hash1_result, 1)
    /\ (compare_mode = 1 /\ hash2_result.tag # "unset") =>
           FileOutcome(input2, hash2_result, 2)

\* a regular file whose read failed
C3_ReadFailed ==
    /\ mode_selection = 1
    /\ pc = "show"
    /\ FsEntry(input).kind = "file"
    /\ hash_result.tag = "Err"
    /\ hash_result.err.kind = "ReadError"

\* C4: identical inputs give equal digests; equal digests give no divergence
\* metric; digests that differ in any character are reported as different.
C4_EqualityVerdict ==
    (ComparisonShown /\ hash1_result.tag = "Ok" /\ hash2_result.tag = "Ok") =>
        LET hash1 == hash1_result.hash
            hash2 == hash2_result.hash
        IN  /\ input1 = input2 => hash1 = hash2
            /\ hash1 = hash2 => ~Reported("Character differences")
            /\ (\E i \in 1 .. Len(hash1) : hash1[i] # hash2[i]) =>
                   Reported("Character differences")

\* two different files of equal content have been compared
C4_EqualDigestsShown ==
    /\ ComparisonShown
    /\ compare_mode = 1
    /\ input1 # input2
    /\ hash1_result.tag = "Ok"
    /\ hash2_result.tag = "Ok"
    /\ hash1_result.hash = hash2_result.hash
    /\ Reported("Hash 2")

\* the difference line displayed in this iteration
DifferenceLine == out[CHOOSE i \in 1 .. Len(out) : out[i].tag = "Character differences"].arg

\* C5: when the digests differ, the displayed count is the number of index
\* positions at which they differ, the displayed total is the digest length,
\* and 1 <= count <= total.
C5_HammingCount ==
    (ComparisonShown /\ hash1_result.tag = "Ok" /\ hash2_result.tag = "Ok"
        /\ hash1_result.hash # hash2_result.hash) =>
        LET hash1 == hash1_result.hash
            hash2 == hash2_result.hash
        IN  /\ Reported("Character differences")
            /\ DifferenceLine.differences =
                   Cardinality({i \in 1 .. Len(hash1) : hash1[i] # hash2[i]})
            /\ DifferenceLine.total_chars = Len(hash1)
            /\ DifferenceLine.total_chars = Len(hash2)
            /\ 1 <= DifferenceLine.differences
            /\ DifferenceLine.differences <= DifferenceLine.total_chars

\* two digests that differ in some positions and agree in others
C5_PartialDifference ==
    /\ ComparisonShown
    /\ Reported("Character differences")
    /\ DifferenceLine.differences >= 1
    /\ DifferenceLine.differences < DifferenceLine.total_chars

\* hex characters of a digest, per entry of choices
DigestChars == << 64, 64, 128, 32 >>

\* C6: both digests of a comparison have the length fixed by the one selected
\* algorithm: 64 for SHA-256 and Keccak-256, 128 for Blake2b, 32 for MD5.
C6_SameAlgorithmSameLength ==
    /\ (mode_selection = 2 /\ hash1_result.tag = "Ok") =>
           Len(hash1_result.hash) = DigestChars[selection + 1]
    /\ (mode_selection = 2 /\ hash2_result.tag = "Ok") =>
           Len(hash2_result.hash) = DigestChars[selection + 1]
    /\ (mode_selection = 2 /\ hash1_result.tag = "Ok" /\ hash2_result.tag = "Ok") =>
           Len(hash1_result.hash) = Len(hash2_result.hash)

\* two Blake2b digests have been compared
C6_Blake2bCompared ==
    /\ ComparisonShown
    /\ selection = 2
    /\ hash1_result.tag = "Ok"
    /\ hash2_result.tag = "Ok"
    /\ hash1_result.hash # hash2_result.hash
    /\ Len(hash2_result.hash) = 128

\* no digest and no algorithm note among the lines displayed
NoDigestShown ==
    \A i \in 1 .. Len(out) : out[i].tag \notin {"Output Hash", "Hash 1", "Hash 2", "Note"}

\* C7: the step that reports a failed operation displays no digest and no
\* algorithm note and leads to the continue/exit prompt; the prompt leads to
\* the next iteration or, only on "Exit", out of the loop; nothing else ends
\* the loop.
C7_FailureKeepsSession ==
    [][ /\ (pc = "show" /\ hash_result.tag = "Err") =>
               (pc' = "continue" /\ NoDigestShown')
        /\ (pc = "cmp_report" /\ (hash1_result.tag = "Err" \/ hash2_result.tag = "Err")) =>
               (pc' = "continue" /\ NoDigestShown')
        /\ pc = "continue" =>
               pc' = (IF continue_selection' = 1 THEN "done" ELSE "mode")
        /\ pc' = "done" => pc = "continue"
        /\ pc' # "panic" ]_vars

\* a failed single hash has reached the continue/exit prompt
C7_FailedAtPrompt ==
    /\ pc = "continue"
    /\ mode_selection = 1
    /\ hash_result.tag = "Err"
    /\ Reported("Error")

\* the text of a line without its surrounding whitespace, by position
Stripped(line) ==
    LET keep == {i \in 1 .. Len(line) : line[i] \notin {9, 10, 11, 12, 13, 32, 133, 160}}
    IN  IF keep = {} THEN << >>
        ELSE SubSeq(line,
                    CHOOSE i \in keep : \A j \in keep : i <= j,
                    CHOOSE i \in keep : \A j \in keep : j <= i)

\* what a text operand must have passed to the digest computation
TextOutcome(line, result, operand) ==
    /\ result.tag = "Ok"
    /\ Len(CallsFor(operand)) = 1
    /\ CallsFor(operand)[1].op = "digest"
    /\ CallsFor(operand)[1].arg = AsBytes(Stripped(line))

\* C8: in the text flows the digest is computed on the UTF-8 bytes of the
\* entered line without its leading and trailing whitespace, and never fails.
C8_TextTrimmed ==
    /\ (mode_selection = 0 /\ hash_result.tag # "unset") =>
           TextOutcome(raw, hash_result, 0)
    /\ (compare_mode = 0 /\ hash1_result.tag # "unset") =>
           TextOutcome(raw1, hash1_result, 1)
    /\ (compare_mode = 0 /\ hash2_result.tag # "unset") =>
           TextOutcome(raw2, hash2_result, 2)

\* " a" followed by the newline has been hashed as "a"
C8_PaddedTextHashed ==
    /\ mode_selection = 0
    /\ pc = "show"
    /\ raw = << 32, 97, 10 >>
    /\ CallsFor(0)[1].arg = << 97 >>

\* the texts whose digest a file digest is compared with
Texts == SeqsUpTo(Chars, MaxLen)

\* the digest of a file equals the digest hash_text gives for the same bytes
FileAsText(result, operand) ==
    result.tag = "Ok" =>
        \A text \in Texts :
            AsBytes(text) = CallsFor(operand)[4].arg =>
                result.hash = hash_text(text, Algorithm)

\* C9: equal payloads under one algorithm give equal digests, whichever of
\* hash_text and hash_file computes them and in whichever order.
C9_DigestOfPayloadOnly ==
    /\ (mode_selection = 1 /\ hash_result.tag # "unset") =>
           FileAsText(hash_result, 0)
    /\ (compare_mode = 1 /\ hash1_result.tag # "unset") =>
           FileAsText(hash1_result, 1)
    /\ (compare_mode = 1 /\ hash2_result.tag # "unset") =>
           FileAsText(hash2_result, 2)
    /\ (mode_selection = 2 /\ hash1_result.tag = "Ok" /\ hash2_result.tag = "Ok"
           /\ CallsFor(1)[Len(CallsFor(1))].arg = CallsFor(2)[Len(CallsFor(2))].arg) =>
           hash1_result.hash = hash2_result.hash

\* a file whose bytes are the UTF-8 bytes of a two-byte character was hashed
C9_FileOfTextBytes ==
    /\ mode_selection = 1
    /\ pc = "show"
    /\ hash_result.tag = "Ok"
    /\ selection = 1
    /\ CallsFor(0)[4].arg = AsBytes(<< 233 >>)
    /\ hash_result.hash = hash_text(<< 233 >>, "Keccak-256")

\* C10: the algorithm handed to hash_text and hash_file is one of the four
\* supported ones, and no unreachable!() branch is reached.
C10_NoUnreachable ==
    /\ pc # "panic"
    /\ selection # NoSelection =>
           Algorithm \in {"SHA-256", "Keccak-256", "Blake2b", "MD5"}
    /\ hash_result.hash # Unreachable
    /\ hash1_result.hash # Unreachable
    /\ hash2_result.hash # Unreachable

\* the last entry of every menu on the way has been selected
C10_LastEntriesSelected ==
    /\ pc = "cmp_report"
    /\ mode_selection = 2
    /\ compare_mode = 1
    /\ selection = 3
    /\ hash2_result.tag = "Ok"

====
